---- MODULE Spec2Model ----
(***************************************************************************)
(* Model of src/src/dispatch/AbceDispatcher.py: the Abce dispatcher        *)
(* adapter of HERON.  One Abce instance, its four fields, the process      *)
(* environment (ABCE_DIR), the file system holding the external dispatcher *)
(* module, and the three operations read_input, initialize and dispatch.   *)
(*                                                                         *)
(* Conventions.  A path is a sequence of components; an absolute path      *)
(* starts with the component "/".  Python's None is the value None below.  *)
(* A dict is a function from names to values.  Floating point numbers of   *)
(* the time grid are exact rationals <<numerator, denominator>>.           *)
(***************************************************************************)
EXTENDS Integers, Sequences, FiniteSets, TLC

VARIABLES
  environ,        \* os.environ['ABCE_DIR'], or Unset
  env_consulted,  \* whether read_input looked at os.environ
  inputs,         \* <<>> before read_input, <<tree>> once read_input was called
  usr_loc,        \* self._usr_loc
  file,           \* self._file
  disp_settings,  \* self._disp_settings
  agent_opt,      \* self._agent_opt
  fs,             \* the file system: content of each candidate module file
  module,         \* the module object the last importFromPath returned
  nstate,         \* number of NumpyState objects constructed so far
  prev_ran,       \* content the previous invocation of the external entry point ran
  call            \* what the last call did: outcome, error, return value

vars == <<environ, env_consulted, inputs, usr_loc, file, disp_settings,
          agent_opt, fs, module, nstate, prev_ran, call>>

\* ------------------------------------------------------------------ bounds
MaxKids == 2      \* children of a configuration node
MaxNum == 5       \* largest t_num
MaxCalls == 2     \* dispatch calls (NumpyState objects) per run

\* ------------------------------------------------------------------ values
None == <<"<None>">>
Unset == <<"<unset>">>
NoFile == "-"
NoModule == "none"

SeqsUpTo(S, n) == UNION {[1..k -> S] : k \in 0..n}

\* ------------------------------------------------------------------ paths
Root == "/"
Cwd == <<Root, "cwd">>
IsAbs(p) == Len(p) > 0 /\ p[1] = Root

\* os.path.join(a, b): an absolute b discards a
Join(a, b) == IF IsAbs(b) THEN b ELSE a \o b

RECURSIVE NormFrom(_, _)
\* os.path.normpath on an absolute path: acc is the normalised prefix
NormFrom(acc, rest) ==
  IF rest = <<>> THEN acc
  ELSE LET c == Head(rest) IN
       IF c = "." \/ c = Root THEN NormFrom(acc, Tail(rest))
       ELSE IF c = ".."
            THEN NormFrom(IF Len(acc) > 1 THEN SubSeq(acc, 1, Len(acc) - 1) ELSE acc,
                          Tail(rest))
            ELSE NormFrom(Append(acc, c), Tail(rest))

\* os.path.abspath(p) = normpath(join(getcwd(), p))
AbsPath(p) == NormFrom(<<Root>>, Join(Cwd, p))

\* os.path.isfile(p)
IsFile(f, p) == p \in DOMAIN f /\ f[p] # NoFile

RunDirs == {<<Root, "run">>, <<Root, "run", "case">>}
LocRel == <<"disp.py">>
LocUp == <<"..", "disp.py">>
LocAbs == <<Root, "opt", "abce", "disp.py">>
DirAbce == <<Root, "opt", "abce">>
Locs == {LocRel, LocUp}
EnvVals == {Unset, LocAbs, DirAbce}
FilePaths == {<<Root, "run", "disp.py">>, LocAbs}

\* ------------------------------------------------------------------ configuration trees
Leaf(n, v) == [name |-> n, value |-> v, subparts |-> <<>>]
AgentOpt(subs) == [name |-> "agent_opt", value |-> "", subparts |-> subs]

\* the sub-nodes get_input_specs declares (a sample of each kind)
OptLeaves == {Leaf("profit_lamda", "0.5"), Leaf("profit_lamda", "100"),
              Leaf("int_bound", "100")}
TopLeaves == {Leaf("location", l) : l \in Locs} \cup {Leaf("hist_wt", "0.5")}
AgentOptNodes == {AgentOpt(s) : s \in SeqsUpTo(OptLeaves, MaxKids)}
Children == TopLeaves \cup AgentOptNodes
Trees == SeqsUpTo(Children, MaxKids)

\* ------------------------------------------------------------------ dicts
EmptyDict == [x \in {} |-> ""]
Put(d, k, v) == [x \in DOMAIN d \cup {k} |-> IF x = k THEN v ELSE d[x]]

\* ------------------------------------------------------------------ call records
NoErr == [kind |-> "none", msg |-> <<>>]
NoState == [id |-> 0, components |-> <<>>, indexer |-> "none", time |-> <<>>,
            data |-> "none"]
NoArg == [run_dir |-> None, ts |-> 0, te |-> 0, tn |-> 0, components |-> <<>>,
          indexer |-> "none"]
NoCall == [op |-> "none", arg |-> NoArg, outcome |-> "none", err |-> NoErr,
           loads |-> 0, invoked |-> 0, ret |-> NoState, results |-> NoState,
           ran |-> NoModule, pre_file |-> None]
Err(k) == [kind |-> k, msg |-> <<>>]

\* ------------------------------------------------------------------ read_input
RECURSIVE FindFirst(_, _)
\* inputs.findFirst(name): the first direct child of that name, as <<child>>, or <<>>
FindFirst(subs, n) ==
  IF subs = <<>> THEN <<>>
  ELSE IF Head(subs).name = n THEN <<Head(subs)>> ELSE FindFirst(Tail(subs), n)

\* a plausible slip: the environment variable is looked up first and wins
ReadUsrLocEnvFirst(tree, env) ==
  LET found == FindFirst(tree, "location") IN
  IF env # Unset THEN [raised |-> FALSE, loc |-> env, consulted |-> TRUE]
  ELSE IF found = <<>> THEN [raised |-> TRUE, loc |-> None, consulted |-> TRUE]
  ELSE [raised |-> FALSE, loc |-> found[1].value, consulted |-> TRUE]

\* a plausible slip: a default location instead of the error
ReadUsrLocDefault(tree, env) ==
  LET found == FindFirst(tree, "location") IN
  IF found = <<>>
  THEN [raised |-> FALSE, loc |-> IF env = Unset THEN <<".">> ELSE env,
        consulted |-> TRUE]
  ELSE [raised |-> FALSE, loc |-> found[1].value, consulted |-> FALSE]

\* lines 95-103: the user location, or the RuntimeError
ReadUsrLoc(tree, env) ==
  LET found == FindFirst(tree, "location") IN
  IF found = <<>>
  THEN IF env = Unset
       THEN [raised |-> TRUE, loc |-> None, consulted |-> TRUE]
       ELSE [raised |-> FALSE, loc |-> env, consulted |-> TRUE]
  ELSE [raised |-> FALSE, loc |-> found[1].value, consulted |-> FALSE]

RECURSIVE StoreAll(_, _)
\* for opt in sub.subparts: d[opt.getName()] = opt.value
StoreAll(d, subs) ==
  IF subs = <<>> THEN d
  ELSE StoreAll(Put(d, Head(subs).name, Head(subs).value), Tail(subs))

RECURSIVE LoadSettingsFlat(_, _)
\* a plausible slip: the agent_opt children are flattened into the general settings
LoadSettingsFlat(acc, subs) ==
  IF subs = <<>> THEN acc
  ELSE LET sub == Head(subs) IN
       LoadSettingsFlat(
         IF sub.name = "agent_opt"
         THEN [acc EXCEPT !.disp = StoreAll(acc.disp, sub.subparts)]
         ELSE [acc EXCEPT !.disp = Put(acc.disp, sub.name, sub.value)],
         Tail(subs))

RECURSIVE LoadSettings(_, _)
\* lines 104-109: the loop over inputs.subparts; acc = [disp, agent]
LoadSettings(acc, subs) ==
  IF subs = <<>> THEN acc
  ELSE LET sub == Head(subs) IN
       LoadSettings(
         IF sub.name = "agent_opt"
         THEN [acc EXCEPT !.agent = StoreAll(acc.agent, sub.subparts)]
         ELSE [acc EXCEPT !.disp = Put(acc.disp, sub.name, sub.value)],
         Tail(subs))

\* Abce.read_input(inputs); the framework configures an instance once
ReadInput(tree) ==
  /\ inputs = <<>>
  /\ LET r == ReadUsrLoc(tree, environ)
         s == LoadSettings([disp |-> disp_settings, agent |-> agent_opt], tree)
     IN /\ inputs' = <<tree>>
        /\ env_consulted' = (env_consulted \/ r.consulted)
        /\ IF r.raised
           THEN /\ call' = [NoCall EXCEPT !.op = "read_input",
                                          !.outcome = "raise",
                                          !.err = Err("RuntimeError"),
                                          !.pre_file = file]
                /\ UNCHANGED <<usr_loc, disp_settings, agent_opt>>
           ELSE /\ call' = [NoCall EXCEPT !.op = "read_input",
                                          !.outcome = "return",
                                          !.pre_file = file]
                /\ usr_loc' = r.loc
                /\ disp_settings' = s.disp
                /\ agent_opt' = s.agent
  /\ UNCHANGED <<environ, file, fs, module, nstate, prev_ran>>

\* ------------------------------------------------------------------ external collaborators
Contents == {"A", "B", "X", "L"}   \* versions of the external module file

\* utils.identifyIfExternalModelExists + utils.importFromPath(load_string, True):
\* a load reads the file that is at the path now
ExternalLoad(fsys, p) ==
  IF p = None THEN [ok |-> FALSE, err |-> Err("TypeError"), module |-> NoModule]
  ELSE IF ~IsFile(fsys, p)
       THEN [ok |-> FALSE, err |-> [kind |-> "NotFound", msg |-> <<p>>],
             module |-> NoModule]
       ELSE IF fsys[p] = "L"
            THEN [ok |-> FALSE, err |-> [kind |-> "ImportError", msg |-> <<p>>],
                  module |-> NoModule]
            ELSE [ok |-> TRUE, err |-> NoErr, module |-> fsys[p]]

\* NumpyState() followed by state.initialize(components, indexer, time)
NewState(id, comps, idx, time) ==
  [id |-> id, components |-> comps, indexer |-> idx, time |-> time, data |-> "init"]

\* module.dispatch(meta, state) of the loaded version m: what it does to the state
\* it was handed, and what it returns
ExtDispatch(m, state) ==
  IF m = "A"
  THEN [raised |-> FALSE, err |-> NoErr, state |-> [state EXCEPT !.data = "A"],
        results |-> [state EXCEPT !.data = "A"]]
  ELSE IF m = "B"
       THEN [raised |-> FALSE, err |-> NoErr, state |-> [state EXCEPT !.data = "B"],
             results |-> [state EXCEPT !.id = 0 - state.id, !.data = "B-new"]]
       ELSE [raised |-> TRUE, err |-> [kind |-> "ExtError", msg |-> <<>>],
             state |-> [state EXCEPT !.data = "X-partial"], results |-> NoState]

\* ------------------------------------------------------------------ initialize
\* a plausible slip: the message names the attempted path only
NotFoundMsgShort(file_loc, start_loc, loc) == <<file_loc>>

\* line 128: the paths the IOError message carries
NotFoundMsg(file_loc, start_loc, loc) == <<file_loc, start_loc, loc>>

\* lines 124-133: [call, file, module] after initialize(case) with case.run_dir = rd
InitializeCall(loc, f, fsys, cached, rd) ==
  LET c0 == [NoCall EXCEPT !.op = "initialize", !.arg.run_dir = rd, !.pre_file = f]
      file_loc == AbsPath(Join(rd, loc))
      ld == ExternalLoad(fsys, file_loc)
  IN IF loc = None
     THEN [call |-> [c0 EXCEPT !.outcome = "raise", !.err = Err("TypeError")],
           file |-> f, module |-> cached]
     ELSE IF ~IsFile(fsys, file_loc)
          THEN [call |-> [c0 EXCEPT !.outcome = "raise",
                                    !.err = [kind |-> "IOError",
                                             msg |-> NotFoundMsg(file_loc, rd, loc)]],
                file |-> f, module |-> cached]
          ELSE IF ~ld.ok
               THEN [call |-> [c0 EXCEPT !.outcome = "raise", !.err = ld.err,
                                         !.loads = 1],
                     file |-> file_loc, module |-> cached]
               ELSE [call |-> [c0 EXCEPT !.outcome = "return", !.loads = 1],
                     file |-> file_loc, module |-> ld.module]

\* the content an earlier call ran, once the current call becomes an earlier one
Absorb == IF call.ran # NoModule THEN call.ran ELSE prev_ran

\* a plausible slip: the resolved path is written back over the user location
InitializeStoresResolved(rd) ==
  /\ LET r == InitializeCall(usr_loc, file, fs, module, rd)
     IN /\ call' = r.call
        /\ file' = r.file
        /\ module' = r.module
        /\ usr_loc' = r.file
  /\ prev_ran' = Absorb
  /\ UNCHANGED <<environ, env_consulted, inputs, disp_settings, agent_opt,
                 fs, nstate>>

\* Abce.initialize(case, components, sources)
Initialize(rd) ==
  /\ LET r == InitializeCall(usr_loc, file, fs, module, rd)
     IN /\ call' = r.call
        /\ file' = r.file
        /\ module' = r.module
  /\ prev_ran' = Absorb
  /\ UNCHANGED <<environ, env_consulted, inputs, usr_loc, disp_settings, agent_opt,
                 fs, nstate>>

\* ------------------------------------------------------------------ dispatch
RECURSIVE Gcd(_, _)
Gcd(a, b) == IF b = 0 THEN a ELSE Gcd(b, a % b)
Abs(x) == IF x < 0 THEN 0 - x ELSE x
\* the rational n/d (d > 0) in lowest terms
Frac(n, d) == LET g == Gcd(Abs(n), d) IN <<n \div g, d \div g>>

\* np.linspace(start, stop, num, endpoint=False)
LinspaceNoEndpoint(start, stop, num) ==
  IF num = 0 THEN <<>>
  ELSE [i \in 1..num |-> Frac(start * num + (i - 1) * (stop - start), num)]

\* np.linspace(start, stop, num), num a count (>= 0): start + i * (stop - start) / (num - 1),
\* and the single point start when num = 1
Linspace(start, stop, num) ==
  IF num = 0 THEN <<>>
  ELSE IF num = 1 THEN <<Frac(start, 1)>>
  ELSE [i \in 1..num |-> Frac(start * (num - 1) + (i - 1) * (stop - start), num - 1)]

\* a plausible slip: the module loaded earlier is kept and reused
DispatchModuleCached(fsys, f, cached) ==
  IF cached # NoModule THEN [ok |-> TRUE, err |-> NoErr, module |-> cached]
  ELSE ExternalLoad(fsys, f)

\* lines 147-149: the module this dispatch call invokes
DispatchModule(fsys, f, cached) == ExternalLoad(fsys, f)

\* a plausible slip: the external call's return value is returned
DispatchReturnResults(state, results) == results

\* line 156: return state
DispatchReturn(state, results) == state

\* a plausible slip: the exception is caught and the state built so far returned
DispatchRaiseSwallowed(c, err, state) == [c EXCEPT !.outcome = "return", !.ret = state]

\* an exception leaves dispatch uncaught: nothing is returned
DispatchRaise(c, err, state) == [c EXCEPT !.outcome = "raise", !.err = err]

\* lines 144-156: [call, module, made] after dispatch; n = objects made before,
\* idx = meta['HERON']['resource_indexer'] or "missing"
DispatchCall(f, fsys, cached, n, ts, te, tn, comps, idx) ==
  LET c0 == [NoCall EXCEPT !.op = "dispatch", !.pre_file = f,
                           !.arg = [NoArg EXCEPT !.ts = ts, !.te = te, !.tn = tn,
                                                 !.components = comps,
                                                 !.indexer = idx]]
      time == Linspace(ts, te, tn)
      ld == DispatchModule(fsys, f, cached)
      c1 == [c0 EXCEPT !.loads = 1]
      state == NewState(n + 1, comps, idx, time)
      ex == ExtDispatch(ld.module, state)
      c2 == [c1 EXCEPT !.invoked = 1, !.ran = ld.module, !.results = ex.results]
  IN IF ~ld.ok
     THEN [call |-> DispatchRaise(c1, ld.err, NoState),
           module |-> cached, made |-> n]
     ELSE IF idx = "missing"
          THEN [call |-> DispatchRaise(c1, Err("KeyError"), NoState),
                module |-> ld.module, made |-> n + 1]
          ELSE IF ex.raised
               THEN [call |-> DispatchRaise(c2, ex.err, ex.state),
                     module |-> ld.module, made |-> n + 1]
               ELSE [call |-> [c2 EXCEPT !.outcome = "return",
                                         !.ret = DispatchReturn(ex.state, ex.results)],
                     module |-> ld.module, made |-> n + 1]

\* Abce.dispatch(case, components, sources, meta), get_time_discr() = (ts, te, tn)
Dispatch(ts, te, tn, comps, idx) ==
  /\ nstate < MaxCalls
  /\ LET r == DispatchCall(file, fs, module, nstate, ts, te, tn, comps, idx)
     IN /\ call' = r.call
        /\ module' = r.module
        /\ nstate' = r.made
  /\ prev_ran' = Absorb
  /\ UNCHANGED <<environ, env_consulted, inputs, usr_loc, file, disp_settings,
                 agent_opt, fs>>

\* ------------------------------------------------------------------ the file system
\* the external module file is written, replaced or removed between calls
WriteFile(p, c) ==
  /\ fs[p] # c
  /\ fs' = [fs EXCEPT ![p] = c]
  /\ call' = [NoCall EXCEPT !.op = "write", !.pre_file = file]
  /\ prev_ran' = Absorb
  /\ UNCHANGED <<environ, env_consulted, inputs, usr_loc, file, disp_settings,
                 agent_opt, module, nstate>>

\* ------------------------------------------------------------------ initial state
\* Abce.__init__, in any environment; the module file is not installed yet
Init ==
  /\ environ \in EnvVals
  /\ env_consulted = FALSE
  /\ inputs = <<>>
  /\ usr_loc = None
  /\ file = None
  /\ disp_settings = EmptyDict
  /\ agent_opt = EmptyDict
  /\ fs = [p \in FilePaths |-> NoFile]
  /\ module = NoModule
  /\ nstate = 0
  /\ prev_ran = NoModule
  /\ call = NoCall

\* the configuration phase alone, over every tree
NextConfig == inputs = <<>> /\ \E tree \in Trees : ReadInput(tree)
SpecConfig == Init /\ [][NextConfig]_vars

\* inputs of a run
CaseTrees == {<<Leaf("location", LocRel),
                AgentOpt(<<Leaf("profit_lamda", "0.5"), Leaf("int_bound", "100")>>)>>,
              <<Leaf("location", LocUp)>>,
              <<Leaf("hist_wt", "0.5")>>}
CaseDiscr == {<<0, 10, 5>>, <<0, 10, 1>>}
CompLists == {<<"A", "B">>}
Indexers == {"idx", "missing"}

\* a run: configure, initialize, dispatch repeatedly, the module file changing
Next ==
  \/ \E tree \in CaseTrees : ReadInput(tree)
  \/ \E rd \in RunDirs : Initialize(rd)
  \/ \E d \in CaseDiscr, comps \in CompLists, idx \in Indexers :
       Dispatch(d[1], d[2], d[3], comps, idx)
  \/ \E p \in FilePaths, c \in Contents \cup {NoFile} : WriteFile(p, c)
Spec == Init /\ [][Next]_vars

\* dispatch over every time discretisation, the module file installed once
TVals == {0, 4, 10}
TimeDiscr == {<<s, e, k>> : s \in TVals, e \in TVals, k \in 0..MaxNum}
NextGrid ==
  \/ ReadInput(<<Leaf("location", LocRel)>>)
  \/ Initialize(<<Root, "run">>)
  \/ \E d \in TimeDiscr : Dispatch(d[1], d[2], d[3], <<"A", "B">>, "idx")
  \/ WriteFile(<<Root, "run", "disp.py">>, "A")
SpecGrid == Init /\ [][NextGrid]_vars

\* ------------------------------------------------------------------ properties
HasLocation(tree) == \E i \in 1..Len(tree) : tree[i].name = "location"
FirstLocation(tree) ==
  tree[CHOOSE i \in 1..Len(tree) :
         /\ tree[i].name = "location"
         /\ \A j \in 1..(i - 1) : tree[j].name # "location"].value
ReadInputDone == call.op = "read_input" /\ inputs # <<>>

\* C1: a tree without a location child, read while ABCE_DIR is unset, makes
\* read_input raise the RuntimeError; it does not return and stores no location.
C1_NoLocationNoEnvRaises ==
  (ReadInputDone /\ ~HasLocation(inputs[1]) /\ environ = Unset)
    => /\ call.outcome = "raise"
       /\ call.err.kind = "RuntimeError"
       /\ usr_loc = None
C1_Witness ==
  /\ ReadInputDone /\ ~HasLocation(inputs[1]) /\ environ = Unset
  /\ Len(inputs[1]) > 0
  /\ call.outcome = "raise"

\* C2: with a location child, read_input returns, never looks at the environment,
\* and the stored location is the (first) location value, whatever ABCE_DIR is.
C2_LocationIgnoresEnv ==
  (ReadInputDone /\ HasLocation(inputs[1]))
    => /\ call.outcome = "return"
       /\ ~env_consulted
       /\ usr_loc = FirstLocation(inputs[1])
C2_Witness ==
  /\ ReadInputDone /\ HasLocation(inputs[1])
  /\ environ # Unset
  /\ usr_loc = FirstLocation(inputs[1]) /\ usr_loc # environ

\* the children of the agent_opt subtrees, in document order
RECURSIVE OptChildren(_)
OptChildren(tree) ==
  IF tree = <<>> THEN <<>>
  ELSE (IF Head(tree).name = "agent_opt" THEN Head(tree).subparts ELSE <<>>)
       \o OptChildren(Tail(tree))
\* the other direct children, in document order
TopChildren(tree) == SelectSeq(tree, LAMBDA c : c.name # "agent_opt")
Names(cs) == {cs[i].name : i \in 1..Len(cs)}
IsLastOfName(cs, i) == \A j \in (i + 1)..Len(cs) : cs[j].name # cs[i].name

\* C5 as claimed: after read_input returns, every agent_opt child is an entry
\* name -> value of the agent settings and of no other mapping, every other direct
\* child an entry of the general settings and not of the agent settings.
C5_EveryChildStored ==
  (ReadInputDone /\ call.outcome = "return")
    => LET opts == OptChildren(inputs[1])
           tops == TopChildren(inputs[1])
       IN /\ \A i \in 1..Len(opts) :
               /\ opts[i].name \in DOMAIN agent_opt
               /\ agent_opt[opts[i].name] = opts[i].value
               /\ opts[i].name \notin DOMAIN disp_settings
          /\ \A i \in 1..Len(tops) :
               /\ tops[i].name \in DOMAIN disp_settings
               /\ disp_settings[tops[i].name] = tops[i].value
               /\ tops[i].name \notin DOMAIN agent_opt

\* C5 amended: the two mappings partition the names; each name maps to the value
\* of the last child carrying it (a repeated name overwrites the earlier value).
C5_PartitionLastWins ==
  (ReadInputDone /\ call.outcome = "return")
    => LET opts == OptChildren(inputs[1])
           tops == TopChildren(inputs[1])
       IN /\ DOMAIN agent_opt = Names(opts)
          /\ DOMAIN disp_settings = Names(tops)
          /\ DOMAIN agent_opt \cap DOMAIN disp_settings = {}
          /\ \A i \in 1..Len(opts) :
               IsLastOfName(opts, i) => agent_opt[opts[i].name] = opts[i].value
          /\ \A i \in 1..Len(tops) :
               IsLastOfName(tops, i) => disp_settings[tops[i].name] = tops[i].value
C5_Witness ==
  /\ ReadInputDone /\ call.outcome = "return"
  /\ \E i \in 1..Len(inputs[1]) : inputs[1][i].name = "agent_opt"
  /\ DOMAIN agent_opt = {"profit_lamda", "int_bound"}
  /\ agent_opt["profit_lamda"] = "0.5" /\ agent_opt["int_bound"] = "100"
  /\ DOMAIN disp_settings = {"location"}

\* C3: initialize with a stored location and no file at abspath(join(run_dir,
\* location)) raises IOError; the message carries the attempted path, the run
\* directory and the provided path; _file keeps its value and nothing is loaded.
C3_MissingFileRaisesIOError ==
  (call.op = "initialize" /\ usr_loc # None
     /\ ~IsFile(fs, AbsPath(Join(call.arg.run_dir, usr_loc))))
    => /\ call.outcome = "raise"
       /\ call.err.kind = "IOError"
       /\ \A p \in {AbsPath(Join(call.arg.run_dir, usr_loc)), call.arg.run_dir, usr_loc} :
            \E i \in 1..Len(call.err.msg) : call.err.msg[i] = p
       /\ file = call.pre_file
       /\ call.loads = 0
C3_Witness ==
  /\ call.op = "initialize" /\ usr_loc # None
  /\ ~IsFile(fs, AbsPath(Join(call.arg.run_dir, usr_loc)))
  /\ call.err.kind = "IOError"
  /\ \E p \in FilePaths : fs[p] # NoFile

\* C4: a dispatch call that invokes the external entry point has loaded the
\* module itself, once, and runs the content the file has at that call.
C4_DispatchRunsCurrentFile ==
  (call.op = "dispatch" /\ call.invoked = 1)
    => /\ call.loads = 1
       /\ IsFile(fs, file)
       /\ call.ran = fs[file]
C4_Witness ==
  /\ call.op = "dispatch" /\ call.invoked = 1
  /\ prev_ran # NoModule /\ prev_ran # call.ran
  /\ call.ran = fs[file]

FracSub(a, b) == Frac(a[1] * b[2] - b[1] * a[2], a[2] * b[2])
Uniform(t) ==
  \A i \in 1..(Len(t) - 2) : FracSub(t[i + 1], t[i]) = FracSub(t[i + 2], t[i + 1])
GridOfCall == call.ret.time
DispatchReturned == call.op = "dispatch" /\ call.outcome = "return"

\* C7 as claimed: the grid has t_num points, uniformly spaced, the first t_start
\* and the last t_end.
C7_GridEndsAtTEnd ==
  DispatchReturned
    => /\ Len(GridOfCall) = call.arg.tn
       /\ Uniform(GridOfCall)
       /\ call.arg.tn >= 1
            => /\ GridOfCall[1] = <<call.arg.ts, 1>>
               /\ GridOfCall[call.arg.tn] = <<call.arg.te, 1>>

\* C7 amended: t_num points starting at t_start; for t_num >= 2 uniformly spaced
\* and ending at t_end; for t_num = 1 the single point t_start; (0, 10, 5) gives
\* 0, 5/2, 5, 15/2, 10.
C7_GridLinspace ==
  DispatchReturned
    => /\ Len(GridOfCall) = call.arg.tn
       /\ Uniform(GridOfCall)
       /\ call.arg.tn >= 1 => GridOfCall[1] = <<call.arg.ts, 1>>
       /\ call.arg.tn >= 2 => GridOfCall[call.arg.tn] = <<call.arg.te, 1>>
       /\ (call.arg.ts = 0 /\ call.arg.te = 10 /\ call.arg.tn = 5)
            => GridOfCall = <<<<0, 1>>, <<5, 2>>, <<5, 1>>, <<15, 2>>, <<10, 1>>>>
C7_Witness ==
  /\ DispatchReturned
  /\ call.arg.ts = 0 /\ call.arg.te = 10 /\ call.arg.tn = 5
  /\ GridOfCall[2] = <<5, 2>>

\* C8: a dispatch call made when the resolved file (found by initialize) is gone
\* raises the not-found error of the load, before the entry point is invoked, and
\* returns nothing.
C8_MissingFileAtDispatch ==
  (call.op = "dispatch" /\ file # None /\ ~IsFile(fs, file))
    => /\ call.outcome = "raise"
       /\ call.err.kind = "NotFound"
       /\ call.invoked = 0
       /\ call.ret = NoState
C8_Witness ==
  /\ call.op = "dispatch" /\ file # None /\ ~IsFile(fs, file)
  /\ call.outcome = "raise"

\* C9: when the load or the external dispatch raises, the call raises that very
\* error, after one load and at most one invocation, and returns nothing.
C9_ErrorsPropagate ==
  call.op = "dispatch"
    => /\ ~ExternalLoad(fs, file).ok
            => /\ call.outcome = "raise"
               /\ call.err = ExternalLoad(fs, file).err
               /\ call.loads = 1 /\ call.invoked = 0
               /\ call.ret = NoState
       /\ (IsFile(fs, file) /\ fs[file] = "X" /\ call.arg.indexer # "missing")
            => /\ call.outcome = "raise"
               /\ call.err.kind = "ExtError"
               /\ call.loads = 1 /\ call.invoked = 1
               /\ call.ret = NoState
C9_Witness ==
  /\ call.op = "dispatch"
  /\ call.err.kind = "ExtError"
  /\ call.invoked = 1

\* C10: once read_input was called, no step changes the two settings mappings or
\* the user location, and a dispatch step leaves the resolved path alone.
C10_SettingsFrozen ==
  [][ inputs # <<>>
        => /\ disp_settings' = disp_settings
           /\ agent_opt' = agent_opt
           /\ usr_loc' = usr_loc
           /\ call'.op = "dispatch" => file' = file ]_vars
C10_Witness ==
  /\ call.op = "dispatch" /\ call.outcome = "return"
  /\ file # None
  /\ DOMAIN agent_opt # {} /\ DOMAIN disp_settings # {}
  /\ nstate = MaxCalls

====
